---- MODULE Spec2Model ----
(***************************************************************************)
(* BizTime (NodePGEx): the table-agnostic data-access layer                *)
(* (src/dbFunctions.js) over the single shared pg connection (src/db.js)   *)
(* and the invoices router (src/routes/invoices.js).                       *)
(*                                                                         *)
(* SQL text is modelled as a record of token sequences, one per template   *)
(* hole of the source's template strings, so that the clauses the code     *)
(* concatenates (delimiters included) are what the store parses.           *)
(***************************************************************************)
EXTENDS Integers, Sequences, FiniteSets, TLC

VARIABLES
    invoices,   \* the store's invoices table, rows in store order
    companies,  \* the store's companies table, rows in store order
    nextId,     \* the store's serial for invoices.id
    heap,       \* updateData objects built by callers (passed by reference)
    calls,      \* data-access calls made so far, in the order they were made
    requests    \* invocations of the invoices route handlers

vars == <<invoices, companies, nextId, heap, calls, requests>>

\* ------------------------------------------------------------- bounds
MaxCalls == 3      \* data-access calls made by library-level callers
MaxObjs == 1       \* updateData objects library-level callers build
MaxReqs == 2       \* requests handled by the invoices router

\* ------------------------------------------------------- value domains
PkValues == {1}

InvoiceColumns == <<"id", "comp_code", "amt", "paid", "add_date", "paid_date">>
CompanyColumns == <<"code", "name", "description">>

Range(s) == {s[i] : i \in 1..Len(s)}

Columns(table) == IF table = "invoices" THEN InvoiceColumns ELSE CompanyColumns

InvoiceRow(id, code, amt) ==
    [id |-> id, comp_code |-> code, amt |-> amt, paid |-> "false",
     add_date |-> "today", paid_date |-> "null"]

CompanyRow(code) == [code |-> code, name |-> code, description |-> "null"]

\* "$1", "$2", ...: the positional placeholders of a parameterized statement
Dollars == <<"$1", "$2", "$3", "$4", "$5", "$6">>
Dollar(i) == Dollars[i]
IsDollar(tok) == tok \in Range(Dollars)
DollarIndex(tok) == CHOOSE i \in 1..Len(Dollars) : Dollars[i] = tok

\* ------------------------------------------------- the relational store
\* What the store does with one parameterized statement (spec sections 3, 4.1
\* and 6): it rejects a statement it cannot parse, one that names an unknown
\* column, one whose bound-value count differs from its placeholder count and
\* one that breaks a constraint; otherwise it runs it atomically.

IsList(toks) ==
    /\ Len(toks) % 2 = 1
    /\ \A i \in 1..Len(toks) : (toks[i] = ",") <=> (i % 2 = 0)

ListItems(toks) == [i \in 1..((Len(toks) + 1) \div 2) |-> toks[2 * i - 1]]

IsCriteria(toks) ==
    /\ Len(toks) = 3
    /\ toks[2] = "="
    /\ IsDollar(toks[3])

\* field = $k {, field = $k}
IsSetClause(toks) ==
    /\ Len(toks) % 4 = 3
    /\ \A i \in 1..Len(toks) :
          /\ (i % 4 = 2) => toks[i] = "="
          /\ (i % 4 = 3) => IsDollar(toks[i])
          /\ (i % 4 = 0) => toks[i] = ","

SetFields(toks) == [i \in 1..((Len(toks) + 1) \div 4) |-> toks[4 * i - 3]]
SetDollars(toks) == [i \in 1..((Len(toks) + 1) \div 4) |-> toks[4 * i - 1]]

\* the number of parameters a statement requires: its highest placeholder
MaxDollar(toks) ==
    LET used == {DollarIndex(toks[i]) : i \in {j \in 1..Len(toks) : IsDollar(toks[j])}}
    IN  IF used = {} THEN 0 ELSE CHOOSE m \in used : \A k \in used : k <= m

Table(table) == IF table = "invoices" THEN invoices ELSE companies

KnownColumns(table, toks) ==
    IsList(toks) /\ Range(ListItems(toks)) \subseteq (Range(Columns(table)) \cup {"*"})

Project(row, toks) ==
    IF "*" \in Range(toks) THEN row
    ELSE [f \in Range(ListItems(toks)) |-> row[f]]

ProjectAll(rows, toks) == [i \in 1..Len(rows) |-> Project(rows[i], toks)]

\* the rows a criteria col = $k selects, in store order
Matching(table, where, values) ==
    SelectSeq(Table(table), LAMBDA r : r[where[1]] = values[DollarIndex(where[3])])

NotMatching(table, where, values) ==
    SelectSeq(Table(table), LAMBDA r : r[where[1]] # values[DollarIndex(where[3])])

CompanyCodes == {companies[i].code : i \in 1..Len(companies)}

Rejected == [ok |-> FALSE, rows |-> <<>>, invoices |-> invoices,
             companies |-> companies, nextId |-> nextId]

Answer(rows, inv, comp, nid) ==
    [ok |-> TRUE, rows |-> rows, invoices |-> inv, companies |-> comp, nextId |-> nid]

WellFormedWhere(stmt) ==
    /\ IsCriteria(stmt.where)
    /\ stmt.where[1] \in Range(Columns(stmt.table))

ExecSelect(stmt) ==
    IF stmt.where = <<>>
    THEN IF KnownColumns(stmt.table, stmt.cols) /\ stmt.values = <<>>
         THEN Answer(ProjectAll(Table(stmt.table), stmt.cols), invoices, companies, nextId)
         ELSE Rejected
    ELSE IF /\ KnownColumns(stmt.table, stmt.cols)
            /\ WellFormedWhere(stmt)
            /\ Len(stmt.values) = MaxDollar(stmt.where)
         THEN Answer(ProjectAll(Matching(stmt.table, stmt.where, stmt.values), stmt.cols),
                     invoices, companies, nextId)
         ELSE Rejected

\* INSERT: invoices.comp_code and invoices.amt are NOT NULL without default,
\* comp_code references companies.code and id is the serial; companies.code is
\* the primary key and name is NOT NULL. The other columns take their default.
ExecInsert(stmt) ==
    IF /\ IsList(stmt.cols) /\ IsList(stmt.nbrs)
       /\ Len(stmt.cols) = Len(stmt.nbrs)
       /\ Range(ListItems(stmt.cols)) \subseteq Range(Columns(stmt.table))
       /\ \A i \in 1..Len(ListItems(stmt.nbrs)) : IsDollar(ListItems(stmt.nbrs)[i])
       /\ Len(stmt.values) = MaxDollar(stmt.nbrs)
       /\ KnownColumns(stmt.table, stmt.returning)
    THEN LET names == ListItems(stmt.cols)
             nbrs == ListItems(stmt.nbrs)
             At(col) == CHOOSE i \in 1..Len(names) : names[i] = col
             Val(col) == stmt.values[DollarIndex(nbrs[At(col)])]
         IN  IF stmt.table = "invoices"
             THEN IF /\ Range(names) = {"comp_code", "amt"}
                     /\ Val("comp_code") \in CompanyCodes
                  THEN LET row == InvoiceRow(nextId, Val("comp_code"), Val("amt"))
                       IN  Answer(<<Project(row, stmt.returning)>>,
                                  Append(invoices, row), companies, nextId + 1)
                  ELSE Rejected
             ELSE IF /\ Range(names) = {"code", "name"}
                     /\ Val("code") \notin CompanyCodes
                  THEN LET row == [CompanyRow(Val("code")) EXCEPT !.name = Val("name")]
                       IN  Answer(<<Project(row, stmt.returning)>>,
                                  invoices, Append(companies, row), nextId)
                  ELSE Rejected
    ELSE Rejected

\* UPDATE ... SET ... WHERE col = $k RETURNING ...: the rows hit, as they are
\* after the update, in store order.
ExecUpdate(stmt) ==
    IF /\ IsSetClause(stmt.cols)
       /\ Range(SetFields(stmt.cols)) \subseteq Range(Columns(stmt.table))
       /\ WellFormedWhere(stmt)
       /\ KnownColumns(stmt.table, stmt.returning)
       /\ Len(stmt.values) = MaxDollar(stmt.cols \o stmt.where)
    THEN LET fields == SetFields(stmt.cols)
             nbrs == SetDollars(stmt.cols)
             old == Table(stmt.table)
             \* the last assignment to a column wins
             Last(col) == CHOOSE i \in 1..Len(fields) :
                 fields[i] = col /\ \A j \in 1..Len(fields) : fields[j] = col => j <= i
             New(r) == [c \in DOMAIN r |->
                          IF c \in Range(fields)
                          THEN stmt.values[DollarIndex(nbrs[Last(c)])]
                          ELSE r[c]]
             Hit(r) == r[stmt.where[1]] = stmt.values[DollarIndex(stmt.where[3])]
             after == [i \in 1..Len(old) |-> IF Hit(old[i]) THEN New(old[i]) ELSE old[i]]
             hits == SelectSeq([i \in 1..Len(old) |-> i], LAMBDA i : Hit(old[i]))
             rows == [k \in 1..Len(hits) |-> Project(after[hits[k]], stmt.returning)]
         IN  IF stmt.table = "invoices"
             THEN IF \A i \in 1..Len(after) : after[i].comp_code \in CompanyCodes
                  THEN Answer(rows, after, companies, nextId)
                  ELSE Rejected
             ELSE Answer(rows, invoices, after, nextId)
    ELSE Rejected

\* DELETE ... WHERE col = $k RETURNING ...: the rows deleted, in store order. The
\* invoices of a deleted company go with it (the foreign key).
ExecDelete(stmt) ==
    IF /\ WellFormedWhere(stmt)
       /\ KnownColumns(stmt.table, stmt.returning)
       /\ Len(stmt.values) = MaxDollar(stmt.where)
    THEN LET gone == Matching(stmt.table, stmt.where, stmt.values)
             kept == NotMatching(stmt.table, stmt.where, stmt.values)
             codes == {kept[i].code : i \in 1..Len(kept)}
         IN  IF stmt.table = "invoices"
             THEN Answer(ProjectAll(gone, stmt.returning), kept, companies, nextId)
             ELSE Answer(ProjectAll(gone, stmt.returning),
                         SelectSeq(invoices, LAMBDA r : r.comp_code \in codes),
                         kept, nextId)
    ELSE Rejected

Execute(stmt) ==
    CASE stmt.verb = "SELECT" -> ExecSelect(stmt)
      [] stmt.verb = "INSERT" -> ExecInsert(stmt)
      [] stmt.verb = "UPDATE" -> ExecUpdate(stmt)
      [] stmt.verb = "DELETE" -> ExecDelete(stmt)

\* ------------------------------------------------- the data-access layer
\* The statement one db.query call sends: the holes of the template string and
\* the bound values.
Statement(verb, table, cols, nbrs, where, returning, values) ==
    [verb |-> verb, table |-> table, cols |-> cols, nbrs |-> nbrs,
     where |-> where, returning |-> returning, values |-> values]

QueryError == "query error"     \* err, as db.query rejects with it

Resolve(envelope) == [settle |-> "resolve", value |-> envelope]
Reject(envelope) == [settle |-> "reject", value |-> envelope]

NoMessage == [message |-> ""]
EmptyObject == <<>>

\* A JavaScript value with its dynamic type: a payload is a record (object), a
\* sequence of records (array) or the empty string.
JsObject(record) == [type |-> "object", value |-> record]
JsArray(records) == [type |-> "array", value |-> records]
JsString(string) == [type |-> "string", value |-> string]

dbSelectAllQuery(selectFields, table) ==
    Statement("SELECT", table, selectFields, <<>>, <<>>, <<>>, <<>>)

\* dbSelectAll shaped like dbSelect: an empty table reported as "not found"
dbSelectAllResolve_EmptyNotFound(result) ==
    IF result.ok
    THEN IF Len(result.rows) > 0
         THEN Resolve([success |-> TRUE, sqlReturn |-> JsArray(result.rows),
                       error |-> NoMessage])
         ELSE Resolve([success |-> FALSE, sqlReturn |-> JsString(""),
                       error |-> [message |-> "not found"]])
    ELSE Resolve([success |-> FALSE, sqlReturn |-> JsString(""),
                  error |-> [message |-> QueryError]])

dbSelectAllResolve(result) ==
    IF result.ok
    THEN Resolve([success |-> TRUE, sqlReturn |-> JsArray(result.rows), error |-> NoMessage])
    ELSE Resolve([success |-> FALSE, sqlReturn |-> JsString(""),
                  error |-> [message |-> QueryError]])

dbSelectQuery(selectData, table) ==
    Statement("SELECT", table, selectData.selectFields, <<>>, selectData.criteria,
              <<>>, selectData.criteriaValues)

\* dbSelect without the length === 1 branch: one row stays a one-element array
dbSelectResolve_NoUnwrap(result) ==
    IF result.ok
    THEN IF Len(result.rows) > 0
         THEN Resolve([success |-> TRUE, sqlReturn |-> JsArray(result.rows),
                       error |-> NoMessage])
         ELSE Resolve([success |-> FALSE, sqlReturn |-> JsString(""),
                       error |-> [message |-> "not found"]])
    ELSE Resolve([success |-> FALSE, sqlReturn |-> JsString(""),
                  error |-> [message |-> QueryError]])

dbSelectResolve(result) ==
    IF result.ok
    THEN IF Len(result.rows) > 0
         THEN IF Len(result.rows) = 1
              THEN Resolve([success |-> TRUE, sqlReturn |-> JsObject(result.rows[1]),
                            error |-> NoMessage])
              ELSE Resolve([success |-> TRUE, sqlReturn |-> JsArray(result.rows),
                            error |-> NoMessage])
         ELSE Resolve([success |-> FALSE, sqlReturn |-> JsString(""),
                       error |-> [message |-> "not found"]])
    ELSE Resolve([success |-> FALSE, sqlReturn |-> JsString(""),
                  error |-> [message |-> QueryError]])

dbInsertQuery(insertData, table, returnFields) ==
    Statement("INSERT", table, insertData.argumentsName, insertData.argumentsNbr,
              <<>>, returnFields, insertData.argumentsValues)

\* dbInsert with the catch block's commented-out reject(...) in place of resolve
dbInsertResolve_Rejects(result) ==
    IF result.ok
    THEN Resolve([success |-> TRUE, sqlReturn |-> JsObject(result.rows[1]),
                  error |-> NoMessage])
    ELSE Reject([success |-> FALSE, insertReturn |-> JsString(""),
                 error |-> [message |-> QueryError]])

dbInsertResolve(result) ==
    IF result.ok
    THEN Resolve([success |-> TRUE, sqlReturn |-> JsObject(result.rows[1]),
                  error |-> NoMessage])
    ELSE Resolve([success |-> FALSE, insertReturn |-> JsString(""),
                  error |-> [message |-> QueryError]])

\* for (field of updateData.argumentsName) { ... idx++ }, idx counted from 1 here
RECURSIVE dbUpdateLoop(_, _, _, _)
dbUpdateLoop(updateData, idx, clauses, delim) ==
    IF idx > Len(updateData.argumentsName) THEN clauses
    ELSE LET field == updateData.argumentsName[idx]
             nbr == IF idx <= Len(updateData.argumentsNbr)
                    THEN updateData.argumentsNbr[idx] ELSE "undefined"
         IN  dbUpdateLoop(updateData, idx + 1,
                 [setClause |-> clauses.setClause \o delim \o <<field, "=", nbr>>,
                  returningClause |-> clauses.returningClause \o delim \o <<field>>],
                 <<",">>)

dbUpdateClauses(whereCriteria, updateData) ==
    dbUpdateLoop(updateData, 1,
                 [setClause |-> <<>>, returningClause |-> <<whereCriteria.pk, ",">>],
                 <<>>)

dbUpdateWhereClause(whereCriteria, updateData) ==
    <<whereCriteria.pk, "=", Dollar(Len(updateData.argumentsNbr) + 1)>>

\* updateData.argumentsValues.push(whereCriteria.value): updateData as the call
\* leaves it
dbUpdatePush(whereCriteria, updateData) ==
    [updateData EXCEPT !.argumentsValues = Append(@, whereCriteria.value)]

dbUpdateQuery(whereCriteria, updateData, table) ==
    LET clauses == dbUpdateClauses(whereCriteria, updateData)
    IN  Statement("UPDATE", table, clauses.setClause, <<>>,
                  dbUpdateWhereClause(whereCriteria, updateData),
                  clauses.returningClause,
                  dbUpdatePush(whereCriteria, updateData).argumentsValues)

\* dbUpdate without the rows.length check, as dbInsert is written
dbUpdateResolve_NoRowCheck(result) ==
    IF result.ok
    THEN Resolve([success |-> TRUE,
                  sqlReturn |-> IF Len(result.rows) > 0 THEN JsObject(result.rows[1])
                                ELSE JsString("undefined"),
                  error |-> NoMessage])
    ELSE Resolve([success |-> FALSE, sqlReturn |-> JsString(""),
                  error |-> [message |-> QueryError]])

dbUpdateResolve(result) ==
    IF result.ok
    THEN IF Len(result.rows) > 0
         THEN Resolve([success |-> TRUE, sqlReturn |-> JsObject(result.rows[1]),
                       error |-> NoMessage])
         ELSE Resolve([success |-> FALSE, sqlReturn |-> JsObject(EmptyObject),
                       error |-> [message |-> "not found"]])
    ELSE Resolve([success |-> FALSE, sqlReturn |-> JsString(""),
                  error |-> [message |-> QueryError]])

dbDeleteQuery(deleteData, table) ==
    Statement("DELETE", table, <<>>, <<>>, deleteData.criteria,
              deleteData.argumentsName, deleteData.criteriaValues)

\* dbDelete without the rows.length check
dbDeleteResolve_NoRowCheck(result) ==
    IF result.ok
    THEN Resolve([success |-> TRUE, message |-> [status |-> "deleted"],
                  deleted |-> JsArray(result.rows), error |-> NoMessage])
    ELSE Resolve([success |-> FALSE, message |-> EmptyObject,
                  error |-> [message |-> QueryError]])

dbDeleteResolve(result) ==
    IF result.ok
    THEN IF Len(result.rows) > 0
         THEN Resolve([success |-> TRUE, message |-> [status |-> "deleted"],
                       deleted |-> JsArray(result.rows), error |-> NoMessage])
         ELSE Resolve([success |-> FALSE, message |-> EmptyObject,
                       error |-> [message |-> "not found"]])
    ELSE Resolve([success |-> FALSE, message |-> EmptyObject,
                  error |-> [message |-> QueryError]])

Settle(op, result) ==
    CASE op = "dbSelectAll" -> dbSelectAllResolve(result)
      [] op = "dbSelect" -> dbSelectResolve(result)
      [] op = "dbInsert" -> dbInsertResolve(result)
      [] op = "dbUpdate" -> dbUpdateResolve(result)
      [] op = "dbDelete" -> dbDeleteResolve(result)

\* ------------------------------------------------- the shared connection
\* db is one Client: the statements of all calls go down one connection, which
\* runs them one at a time in the order db.query was called.
Pending == {i \in 1..Len(calls) : calls[i].state = "pending"}
Settled == {i \in 1..Len(calls) : calls[i].state # "pending"}

NoResult == [ok |-> FALSE, rows |-> <<>>]

\* a call as db.query has queued it; ref is the updateData object dbUpdate was
\* given (0: none) and owner the request whose handler awaits it (0: none)
NewCall(op, args, ref, stmt, owner) ==
    [op |-> op, args |-> args, ref |-> ref, stmt |-> stmt, owner |-> owner,
     state |-> "pending", result |-> NoResult,
     envelope |-> [success |-> FALSE, error |-> NoMessage]]

\* the store answers the oldest pending statement, or rejects it (it may reject
\* any statement: connectivity loss)
Respond(i, answer) ==
    LET settled == Settle(calls[i].op, answer)
    IN  /\ invoices' = answer.invoices
        /\ companies' = answer.companies
        /\ nextId' = answer.nextId
        /\ calls' = [calls EXCEPT ![i] =
                        [@ EXCEPT !.state = IF settled.settle = "resolve"
                                            THEN "resolved" ELSE "rejected",
                                  !.result = [ok |-> answer.ok, rows |-> answer.rows],
                                  !.envelope = settled.value]]

Oldest == CHOOSE i \in Pending : \A j \in Pending : i <= j

StoreAnswers ==
    /\ Pending # {}
    /\ Respond(Oldest, Execute(calls[Oldest].stmt))
    /\ UNCHANGED <<heap, requests>>

StoreRejects ==
    /\ Pending # {}
    /\ Respond(Oldest, Rejected)
    /\ UNCHANGED <<heap, requests>>

\* ------------------------------------------------- payload preparation
\* prepareInsertData and prepareUpdateData (helperFx), as spec section 4.2
\* describes them. A body is a function from its keys to their values.
RECURSIVE Join(_)
Join(items) ==
    IF Len(items) = 0 THEN <<>>
    ELSE IF Len(items) = 1 THEN <<items[1]>>
    ELSE <<items[1], ",">> \o Join(Tail(items))

Present(keys, body) == SelectSeq(keys, LAMBDA k : k \in DOMAIN body)

prepareUpdateData(optionalKeys, body) ==
    LET names == Present(optionalKeys, body)
    IN  IF Len(names) = 0
        THEN [success |-> FALSE, error |-> "nothing to update"]
        ELSE [success |-> TRUE,
              updateData |-> [argumentsName |-> names,
                              argumentsNbr |-> [i \in 1..Len(names) |-> Dollar(i)],
                              argumentsValues |-> [i \in 1..Len(names) |-> body[names[i]]]]]

prepareInsertData(requiredKeys, optionalKeys, body) ==
    LET names == Present(requiredKeys \o optionalKeys, body)
    IN  IF \E i \in 1..Len(requiredKeys) : requiredKeys[i] \notin DOMAIN body
        THEN [success |-> FALSE, error |-> "required field missing"]
        ELSE [success |-> TRUE,
              insertData |-> [argumentsName |-> Join(names),
                              argumentsNbr |-> Join([i \in 1..Len(names) |-> Dollar(i)]),
                              argumentsValues |-> [i \in 1..Len(names) |-> body[names[i]]]]]

\* ------------------------------------------------- library-level callers
\* The inputs the calls are made with.
InvoiceFields == Join(InvoiceColumns)
UpdatableKeys == <<"comp_code", "amt">>

SelectInputs ==
    {[criteria |-> <<"id", "=", "$1">>, criteriaValues |-> <<1>>, selectFields |-> InvoiceFields],
     [criteria |-> <<"amt", "=", "$1">>, criteriaValues |-> <<100>>, selectFields |-> InvoiceFields]}

DeleteInputs ==
    {[criteria |-> <<"id", "=", "$1">>, criteriaValues |-> <<1>>, argumentsName |-> InvoiceFields],
     [criteria |-> <<"amt", "=", "$1">>, criteriaValues |-> <<100>>, argumentsName |-> InvoiceFields]}

InsertBodies == {[comp_code |-> "a", amt |-> 100]}

UpdateBodies == {[amt |-> 100], [comp_code |-> "b", amt |-> 500]}

CanCall == Len(calls) < MaxCalls

CallSelectAll(selectFields, table) ==
    /\ CanCall
    /\ calls' = Append(calls, NewCall("dbSelectAll",
                    [selectFields |-> selectFields, table |-> table], 0,
                    dbSelectAllQuery(selectFields, table), 0))
    /\ UNCHANGED <<invoices, companies, nextId, heap, requests>>

CallSelect(selectData, table) ==
    /\ CanCall
    /\ calls' = Append(calls, NewCall("dbSelect",
                    [selectData |-> selectData, table |-> table], 0,
                    dbSelectQuery(selectData, table), 0))
    /\ UNCHANGED <<invoices, companies, nextId, heap, requests>>

CallInsert(body, table, returnFields) ==
    LET prepared == prepareInsertData(<<"comp_code", "amt">>, <<>>, body)
    IN  /\ CanCall
        /\ prepared.success
        /\ calls' = Append(calls, NewCall("dbInsert",
                        [insertData |-> prepared.insertData, table |-> table], 0,
                        dbInsertQuery(prepared.insertData, table, returnFields), 0))
        /\ UNCHANGED <<invoices, companies, nextId, heap, requests>>

\* a caller builds an updateData object
BuildUpdateData(body) ==
    LET prepared == prepareUpdateData(UpdatableKeys, body)
    IN  /\ Len(heap) < MaxObjs
        /\ prepared.success
        /\ heap' = Append(heap, prepared.updateData)
        /\ UNCHANGED <<invoices, companies, nextId, calls, requests>>

\* dbUpdate up to its db.query: the statement is built and queued, and the
\* object the caller passed has grown by the primary-key value
CallUpdate(whereCriteria, ref, table) ==
    /\ CanCall
    /\ ref \in 1..Len(heap)
    /\ calls' = Append(calls, NewCall("dbUpdate",
                    [whereCriteria |-> whereCriteria, updateData |-> ref, table |-> table],
                    ref, dbUpdateQuery(whereCriteria, heap[ref], table), 0))
    /\ heap' = [heap EXCEPT ![ref] = dbUpdatePush(whereCriteria, heap[ref])]
    /\ UNCHANGED <<invoices, companies, nextId, requests>>

CallDelete(deleteData, table) ==
    /\ CanCall
    /\ calls' = Append(calls, NewCall("dbDelete",
                    [deleteData |-> deleteData, table |-> table], 0,
                    dbDeleteQuery(deleteData, table), 0))
    /\ UNCHANGED <<invoices, companies, nextId, heap, requests>>

InitialInvoices == <<InvoiceRow(1, "a", 500), InvoiceRow(2, "b", 100)>>

Init ==
    /\ invoices = InitialInvoices
    /\ companies = <<CompanyRow("a"), CompanyRow("b")>>
    /\ nextId = Len(invoices) + 1
    /\ heap = <<>>
    /\ calls = <<>>
    /\ requests = <<>>

Next ==
    \/ CallSelectAll(<<"id", ",", "comp_code">>, "invoices")
    \/ \E selectData \in SelectInputs : CallSelect(selectData, "invoices")
    \/ \E body \in InsertBodies : CallInsert(body, "invoices", <<"*">>)
    \/ \E body \in UpdateBodies : BuildUpdateData(body)
    \/ \E value \in PkValues, ref \in 1..MaxObjs :
          CallUpdate([pk |-> "id", value |-> value], ref, "invoices")
    \/ \E deleteData \in DeleteInputs : CallDelete(deleteData, "invoices")
    \/ StoreAnswers
    \/ StoreRejects

Spec == Init /\ [][Next]_vars

\* ------------------------------------------------- the invoices router
\* checkNumbers (helperFx), as spec section 4.2 describes it: a path parameter
\* parses to an integer or fails with a message.
Numerals == ("1" :> 1) @@ ("3" :> 3)
RawIds == {"1", "3", "abc"}

checkNumbers(raw) ==
    IF raw \in DOMAIN Numerals
    THEN [numberIsValid |-> TRUE, validatedNumber |-> Numerals[raw], message |-> ""]
    ELSE [numberIsValid |-> FALSE, validatedNumber |-> 0, message |-> "is not a number"]

PostBodies == {[comp_code |-> "a", amt |-> 100], [amt |-> 100]}
PutBodies == {<<>>, [amt |-> 500]}

NoOutcome == [kind |-> "none", status |-> 0, body |-> ""]
\* res.json(body)
Json(body) == [kind |-> "json", status |-> 200, body |-> body]
\* const e = new Error(message); e.status = status; next(e)
NextError(status, message) == [kind |-> "next", status |-> status, body |-> message]
\* an exception leaves the async handler: neither res.json nor next runs
Thrown(name) == [kind |-> "throw", status |-> 0, body |-> name]

\* a request in its handler: call is the data-access call it awaits or awaited
\* last, invoiceCall the invoice lookup of GET /:id, ref its updateData object
Request(route, id, body, pc, call, ref, validation, outcome) ==
    [route |-> route, id |-> id, body |-> body, pc |-> pc, call |-> call,
     invoiceCall |-> 0, ref |-> ref, validation |-> validation, outcome |-> outcome]

CanServe == Len(requests) < MaxReqs
Self == Len(requests) + 1
Awaited(r) == calls[requests[r].call]
Resumes(r, pc) ==
    /\ r \in 1..Len(requests)
    /\ requests[r].pc = pc
    /\ Awaited(r).state = "resolved"

Finish(r, outcome) ==
    requests' = [requests EXCEPT ![r] = [@ EXCEPT !.pc = "done", !.outcome = outcome]]

\* GET /
GetAll ==
    /\ CanServe
    /\ calls' = Append(calls, NewCall("dbSelectAll",
                    [selectFields |-> <<"id", ",", "comp_code">>, table |-> "invoices"], 0,
                    dbSelectAllQuery(<<"id", ",", "comp_code">>, "invoices"), Self))
    /\ requests' = Append(requests,
                    Request("GET /", "", <<>>, "await", Len(calls) + 1, 0, "ok", NoOutcome))
    /\ UNCHANGED <<invoices, companies, nextId, heap>>

GetAllResumes(r) ==
    /\ Resumes(r, "await")
    /\ requests[r].route = "GET /"
    /\ LET results == Awaited(r).envelope
       IN  Finish(r, IF results.success
                     THEN Json([invoices |-> results.sqlReturn.value])
                     ELSE NextError(400, results.error.message))
    /\ UNCHANGED <<invoices, companies, nextId, heap, calls>>

\* GET /:id
GetOne(id) ==
    LET nbrTest == checkNumbers(id)
        selectData == [criteria |-> <<"id", "=", "$1">>,
                       criteriaValues |-> <<nbrTest.validatedNumber>>,
                       selectFields |-> InvoiceFields]
    IN  /\ CanServe
        /\ IF nbrTest.numberIsValid
           THEN /\ calls' = Append(calls, NewCall("dbSelect",
                               [selectData |-> selectData, table |-> "invoices"], 0,
                               dbSelectQuery(selectData, "invoices"), Self))
                /\ requests' = Append(requests,
                       Request("GET /:id", id, <<>>, "awaitInvoice", Len(calls) + 1, 0,
                               "ok", NoOutcome))
           ELSE /\ requests' = Append(requests,
                       Request("GET /:id", id, <<>>, "done", 0, 0, "invalid id",
                               NextError(400, nbrTest.message)))
                /\ UNCHANGED calls
        /\ UNCHANGED <<invoices, companies, nextId, heap>>

\* after await dbSelect(selectData, "invoices")
GetOneInvoiceResumes(r) ==
    /\ Resumes(r, "awaitInvoice")
    /\ LET resultsInvoice == Awaited(r).envelope
           selectData == [criteria |-> <<"code", "=", "$1">>,
                          criteriaValues |-> <<resultsInvoice.sqlReturn.value.comp_code>>,
                          selectFields |-> <<"code", ",", "name", ",", "description">>]
       IN  IF resultsInvoice.success
           THEN /\ calls' = Append(calls, NewCall("dbSelect",
                               [selectData |-> selectData, table |-> "companies"], 0,
                               dbSelectQuery(selectData, "companies"), r))
                /\ requests' = [requests EXCEPT ![r] =
                       [@ EXCEPT !.pc = "awaitCompany", !.call = Len(calls) + 1,
                                 !.invoiceCall = requests[r].call]]
           ELSE /\ Finish(r, IF resultsInvoice.error.message = "not found"
                             THEN NextError(404, "was not found")
                             ELSE NextError(400, resultsInvoice.error.message))
                /\ UNCHANGED calls
    /\ UNCHANGED <<invoices, companies, nextId, heap>>

\* delete sqlReturn.comp_code; sqlReturn["company"] = company
WithCompany(invoice, company) ==
    [f \in (DOMAIN invoice \ {"comp_code"}) \cup {"company"} |->
        IF f = "company" THEN company ELSE invoice[f]]

\* after await dbSelect(selectData, "companies")
GetOneCompanyResumes(r) ==
    /\ Resumes(r, "awaitCompany")
    /\ LET resultsInvoice == calls[requests[r].invoiceCall].envelope
           resultsCompany == Awaited(r).envelope
       IN  Finish(r, Json([invoice |->
                IF resultsCompany.success
                THEN WithCompany(resultsInvoice.sqlReturn.value, resultsCompany.sqlReturn.value)
                ELSE resultsInvoice.sqlReturn.value]))
    /\ UNCHANGED <<invoices, companies, nextId, heap, calls>>

\* POST /
Post(body) ==
    LET requiredKeys == <<"comp_code", "amt">>
        optionalKeys == <<"paid", "add_date", "paid_date">>
        resultsPreparation == prepareInsertData(requiredKeys, optionalKeys, body)
    IN  /\ CanServe
        /\ IF resultsPreparation.success
           THEN /\ calls' = Append(calls, NewCall("dbInsert",
                               [insertData |-> resultsPreparation.insertData,
                                table |-> "invoices"], 0,
                               dbInsertQuery(resultsPreparation.insertData, "invoices",
                                             Join(requiredKeys)), Self))
                /\ requests' = Append(requests,
                       Request("POST /", "", body, "await", Len(calls) + 1, 0, "ok", NoOutcome))
           ELSE /\ requests' = Append(requests,
                       Request("POST /", "", body, "done", 0, 0, "preparation failed",
                               NextError(400, resultsPreparation.error)))
                /\ UNCHANGED calls
        /\ UNCHANGED <<invoices, companies, nextId, heap>>

PostResumes(r) ==
    /\ Resumes(r, "await")
    /\ requests[r].route = "POST /"
    /\ LET resultsInsert == Awaited(r).envelope
       IN  Finish(r, IF resultsInsert.success
                     THEN Json([invoice |-> resultsInsert.sqlReturn.value])
                     ELSE NextError(400, resultsInsert.error.message))
    /\ UNCHANGED <<invoices, companies, nextId, heap, calls>>

\* PUT /:id
Put(id, body) ==
    LET verifyNumber == checkNumbers(id)
        optionalKeys == <<"comp_code", "amt", "paid", "paid_date">>
        resultsPreparation == prepareUpdateData(optionalKeys, body)
        criteria == [pk |-> "id", value |-> verifyNumber.validatedNumber]
        ref == Len(heap) + 1
    IN  /\ CanServe
        /\ IF ~verifyNumber.numberIsValid
           THEN /\ requests' = Append(requests,
                       Request("PUT /:id", id, body, "done", 0, 0, "invalid id",
                               NextError(400, verifyNumber.message)))
                /\ UNCHANGED <<calls, heap>>
           ELSE IF ~resultsPreparation.success
           THEN /\ requests' = Append(requests,
                       Request("PUT /:id", id, body, "done", 0, 0, "preparation failed",
                               NextError(404, resultsPreparation.error)))
                /\ UNCHANGED <<calls, heap>>
           ELSE /\ calls' = Append(calls, NewCall("dbUpdate",
                               [whereCriteria |-> criteria, updateData |-> ref,
                                table |-> "invoices"], ref,
                               dbUpdateQuery(criteria, resultsPreparation.updateData,
                                             "invoices"), Self))
                /\ heap' = Append(heap, dbUpdatePush(criteria, resultsPreparation.updateData))
                /\ requests' = Append(requests,
                       Request("PUT /:id", id, body, "await", Len(calls) + 1, ref, "ok",
                               NoOutcome))
        /\ UNCHANGED <<invoices, companies, nextId>>

\* the "not found" branch assigns to errorSelect, which that block never
\* declares (it declares errorUpdate): a ReferenceError
PutResumes(r) ==
    /\ Resumes(r, "await")
    /\ requests[r].route = "PUT /:id"
    /\ LET resultsUpdate == Awaited(r).envelope
       IN  Finish(r, IF resultsUpdate.success
                     THEN Json([invoice |-> resultsUpdate.sqlReturn.value])
                     ELSE IF resultsUpdate.error.message = "not found"
                          THEN Thrown("ReferenceError")
                          ELSE NextError(400, resultsUpdate.error.message))
    /\ UNCHANGED <<invoices, companies, nextId, heap, calls>>

\* DELETE /:id
Delete(id) ==
    LET nbrTest == checkNumbers(id)
        deleteData == [criteria |-> <<"id", "=", "$1">>,
                       criteriaValues |-> <<nbrTest.validatedNumber>>,
                       argumentsName |-> InvoiceFields]
    IN  /\ CanServe
        /\ IF nbrTest.numberIsValid
           THEN /\ calls' = Append(calls, NewCall("dbDelete",
                               [deleteData |-> deleteData, table |-> "invoices"], 0,
                               dbDeleteQuery(deleteData, "invoices"), Self))
                /\ requests' = Append(requests,
                       Request("DELETE /:id", id, <<>>, "await", Len(calls) + 1, 0, "ok",
                               NoOutcome))
           ELSE /\ requests' = Append(requests,
                       Request("DELETE /:id", id, <<>>, "done", 0, 0, "invalid id",
                               NextError(400, nbrTest.message)))
                /\ UNCHANGED calls
        /\ UNCHANGED <<invoices, companies, nextId, heap>>

DeleteResumes(r) ==
    /\ Resumes(r, "await")
    /\ requests[r].route = "DELETE /:id"
    /\ LET resultsDelete == Awaited(r).envelope
       IN  Finish(r, IF resultsDelete.success
                     THEN Json([deleted |-> resultsDelete.deleted.value])
                     ELSE IF resultsDelete.error.message = "not found"
                          THEN NextError(404, "was not found")
                          ELSE NextError(400, resultsDelete.error.message))
    /\ UNCHANGED <<invoices, companies, nextId, heap, calls>>

\* A request to the companies router (spec section 6) that deletes a company
\* through dbDelete.
DeleteCompany(code) ==
    LET deleteData == [criteria |-> <<"code", "=", "$1">>,
                       criteriaValues |-> <<code>>,
                       argumentsName |-> Join(CompanyColumns)]
    IN  /\ CanServe
        /\ calls' = Append(calls, NewCall("dbDelete",
                        [deleteData |-> deleteData, table |-> "companies"], 0,
                        dbDeleteQuery(deleteData, "companies"), Self))
        /\ requests' = Append(requests,
               Request("DELETE /companies/:code", code, <<>>, "await", Len(calls) + 1, 0,
                       "ok", NoOutcome))
        /\ UNCHANGED <<invoices, companies, nextId, heap>>

DeleteCompanyResumes(r) ==
    /\ Resumes(r, "await")
    /\ requests[r].route = "DELETE /companies/:code"
    /\ LET resultsDelete == Awaited(r).envelope
       IN  Finish(r, IF resultsDelete.success
                     THEN Json([status |-> "deleted"])
                     ELSE IF resultsDelete.error.message = "not found"
                          THEN NextError(404, "was not found")
                          ELSE NextError(400, resultsDelete.error.message))
    /\ UNCHANGED <<invoices, companies, nextId, heap, calls>>

NextRoutes ==
    \/ GetAll
    \/ \E id \in RawIds : GetOne(id)
    \/ \E body \in PostBodies : Post(body)
    \/ \E id \in RawIds, body \in PutBodies : Put(id, body)
    \/ \E id \in RawIds : Delete(id)
    \/ DeleteCompany("a")
    \/ \E r \in 1..MaxReqs :
          \/ GetAllResumes(r)
          \/ GetOneInvoiceResumes(r)
          \/ GetOneCompanyResumes(r)
          \/ PostResumes(r)
          \/ PutResumes(r)
          \/ DeleteResumes(r)
          \/ DeleteCompanyResumes(r)
    \/ StoreAnswers
    \/ StoreRejects

SpecRoutes == Init /\ [][NextRoutes]_vars

\* a handler suspended at an await runs on from there
RouteResumes(r) ==
    \/ GetAllResumes(r)
    \/ GetOneInvoiceResumes(r)
    \/ GetOneCompanyResumes(r)
    \/ PostResumes(r)
    \/ PutResumes(r)
    \/ DeleteResumes(r)
    \/ DeleteCompanyResumes(r)

\* ------------------------------------------------------------- claims
IsNotFound(envelope) == ~envelope.success /\ envelope.error.message = "not found"

Answered(i) == i \in Settled /\ calls[i].result.ok
ZeroRows(i) == Answered(i) /\ Len(calls[i].result.rows) = 0

\* C1: whenever the store returns zero rows to dbSelect, dbUpdate or dbDelete,
\* the call resolves with success = false and error.message = "not found"; none
\* of the three resolves with success = true on zero rows.
C1_ZeroRowsNotFound ==
    \A i \in Settled :
        calls[i].op \in {"dbSelect", "dbUpdate", "dbDelete"} =>
            /\ ZeroRows(i) => calls[i].state = "resolved" /\ IsNotFound(calls[i].envelope)
            /\ calls[i].envelope.success => Answered(i) /\ Len(calls[i].result.rows) > 0

C1_Witness ==
    \E i, j \in Settled :
        /\ calls[i].op = "dbUpdate" /\ ZeroRows(i) /\ IsNotFound(calls[i].envelope)
        /\ calls[j].op = "dbDelete" /\ ZeroRows(j) /\ IsNotFound(calls[j].envelope)

C3_Step ==
    \A i \in Pending :
        (calls[i].op = "dbSelectAll" /\ calls'[i].state # "pending") =>
            LET envelope == calls'[i].envelope
                rows == ProjectAll(Table(calls[i].args.table), calls[i].args.selectFields)
            IN  /\ calls'[i].state = "resolved"
                /\ calls'[i].result.ok =>
                      /\ envelope.success
                      /\ envelope.sqlReturn = JsArray(rows)
                      /\ envelope.error.message = ""
                /\ ~calls'[i].result.ok => ~envelope.success

C3_SelectAllExact == [][C3_Step]_vars

C3_Witness ==
    \E i \in Settled :
        /\ calls[i].op = "dbSelectAll"
        /\ calls[i].envelope.success
        /\ calls[i].envelope.sqlReturn = JsArray(<<>>)
        /\ invoices = <<>>

\* C4: every dbUpdate call with n >= 1 updated columns sends the n update values
\* in column order followed by the primary-key value as the last bound value,
\* its WHERE clause uses placeholder n+1, and its RETURNING clause lists the
\* primary key followed by every updated column.
C4_BoundValuesPkLast ==
    \A i \in 1..Len(calls) :
        calls[i].op = "dbUpdate" =>
            LET stmt == calls[i].stmt
                whereCriteria == calls[i].args.whereCriteria
                updateData == heap[calls[i].ref]
                n == Len(updateData.argumentsName)
            IN  /\ Len(stmt.values) = n + 1
                /\ \A k \in 1..n : stmt.values[k] = updateData.argumentsValues[k]
                /\ stmt.values[Len(stmt.values)] = whereCriteria.value
                /\ stmt.where = <<whereCriteria.pk, "=", Dollar(n + 1)>>
                /\ stmt.returning = Join(<<whereCriteria.pk>> \o updateData.argumentsName)

SameDelete(i, j) ==
    /\ calls[i].op = "dbDelete" /\ calls[j].op = "dbDelete"
    /\ calls[i].args = calls[j].args

Between(i, j, ops) == \E k \in (i + 1)..(j - 1) : calls[k].op \in ops

C6_DeleteStep ==
    \A i \in Pending :
        (calls[i].op = "dbDelete" /\ calls'[i].state # "pending" /\ calls'[i].result.ok) =>
            LET deleteData == calls[i].args.deleteData
                table == calls[i].args.table
                matched == Matching(table, deleteData.criteria, deleteData.criteriaValues)
                envelope == calls'[i].envelope
            IN  IF Len(matched) > 0
                THEN /\ envelope.success
                     /\ envelope.deleted = JsArray(ProjectAll(matched, deleteData.argumentsName))
                     /\ envelope.message.status = "deleted"
                     /\ Matching(table, deleteData.criteria, deleteData.criteriaValues)' = <<>>
                ELSE IsNotFound(envelope)

C6_SecondDeleteNotFound ==
    \A i, j \in Settled :
        (/\ i < j
         /\ SameDelete(i, j)
         /\ calls[i].envelope.success
         /\ Answered(j)
         /\ ~Between(i, j, {"dbInsert", "dbUpdate"})) => IsNotFound(calls[j].envelope)

C6_DeleteThenNotFound == [][C6_DeleteStep]_vars /\ []C6_SecondDeleteNotFound

\* C6 as stated: only an intervening insert is excluded.
C6_Original ==
    \A i, j \in Settled :
        (/\ i < j
         /\ SameDelete(i, j)
         /\ calls[i].envelope.success
         /\ Answered(j)
         /\ ~Between(i, j, {"dbInsert"})) => IsNotFound(calls[j].envelope)

C6_Witness ==
    \E i, j \in Settled :
        /\ i < j
        /\ SameDelete(i, j)
        /\ calls[i].envelope.success
        /\ calls[i].envelope.message.status = "deleted"
        /\ IsNotFound(calls[j].envelope)

\* C7: in every invoices route handler a data-access result whose error is
\* "not found" is passed on as an error with status 404, and every validation
\* failure (invalid id, payload preparation failure) or store query error is
\* passed on as an error with status 400.
InvoiceRoutes == {"GET /", "GET /:id", "POST /", "PUT /:id", "DELETE /:id"}

C7_ErrorStatusMapping ==
    \A r \in 1..Len(requests) :
        (requests[r].route \in InvoiceRoutes /\ requests[r].pc = "done") =>
            LET outcome == requests[r].outcome
            IN  /\ requests[r].validation # "ok" =>
                      outcome.kind = "next" /\ outcome.status = 400
                /\ (requests[r].call # 0 /\ ~Awaited(r).envelope.success) =>
                      /\ outcome.kind = "next"
                      /\ outcome.status =
                            IF Awaited(r).envelope.error.message = "not found"
                            THEN 404 ELSE 400

\* C8: every successful response of GET /:id is {invoice: {id, amt, paid,
\* add_date, paid_date, company: {code, name, description}}}, with a company
\* record and no comp_code, whatever other requests run between the handler's
\* invoice lookup and its company lookup.
C8_GetOneShape ==
    \A r \in 1..Len(requests) :
        (/\ requests[r].route = "GET /:id"
         /\ requests[r].pc = "done"
         /\ requests[r].outcome.kind = "json") =>
            LET invoice == requests[r].outcome.body.invoice
            IN  /\ DOMAIN invoice = {"id", "amt", "paid", "add_date", "paid_date", "company"}
                /\ DOMAIN invoice.company = {"code", "name", "description"}

\* C9: each call's statement text and bound values depend only on the call's own
\* arguments, and its envelope only on the store's response to its own
\* statement: two calls of one operation made with the same arguments send the
\* same statement, whatever other calls are in flight.
C9_OwnArgumentsOnly ==
    \A i, j \in 1..Len(calls) :
        /\ (calls[i].op = calls[j].op /\ calls[i].args = calls[j].args) =>
              calls[i].stmt = calls[j].stmt
        /\ i \in Settled => calls[i].envelope = Settle(calls[i].op, calls[i].result).value

\* C10: dbUpdate leaves its updateData argument unchanged: after any number of
\* dbUpdate calls with one updateData object, its argumentsValues still has
\* exactly one value per updated column, and every statement built from it binds
\* as many values as it has placeholders (columns + 1).
C10_UpdateDataUnchanged ==
    /\ \A ref \in 1..Len(heap) :
          Len(heap[ref].argumentsValues) = Len(heap[ref].argumentsName)
    /\ \A i \in 1..Len(calls) :
          calls[i].op = "dbUpdate" =>
              Len(calls[i].stmt.values) = MaxDollar(calls[i].stmt.cols \o calls[i].stmt.where)

\* C11: every invocation of an invoices route handler eventually completes the
\* request exactly once, by one res.json or one next(err), for every outcome of
\* validation and of the data-access calls: no handler ends with neither or
\* with an uncaught exception. Stated over finite runs: a request that has not
\* completed by res.json or next(err) still has its completion ahead of it (the
\* connection has yet to settle the call it awaits, or its handler can run on
\* from the await), and a completed request's outcome never changes.
Invoked(r) == r \in 1..Len(requests) /\ requests[r].route \in InvoiceRoutes

Completed(r) ==
    /\ requests[r].pc = "done"
    /\ requests[r].outcome.kind \in {"json", "next"}

StillRunning(r) ==
    \/ requests[r].call \in Pending /\ ENABLED (StoreAnswers \/ StoreRejects)
    \/ ENABLED RouteResumes(r)

C11_CompletesOrRuns == \A r \in 1..MaxReqs : Invoked(r) => Completed(r) \/ StillRunning(r)

C11_OutcomeFinal ==
    \A r \in 1..MaxReqs :
        (Invoked(r) /\ requests[r].outcome.kind # NoOutcome.kind) =>
            requests'[r].outcome = requests[r].outcome

C11_CompletesOnce == [][C11_OutcomeFinal]_vars /\ []C11_CompletesOrRuns

====
